---- MODULE Spec2Model ----
(***************************************************************************)
(* Model of the booking widget of src/app/page.tsx (BookingApp).           *)
(*                                                                         *)
(* Time is counted in whole hours since local midnight of the day the page *)
(* was loaded (day 0); the local time zone is taken to be UTC, so that the *)
(* date strings made with toISOString and with getLocalDateString agree.   *)
(* A date string "YYYY-MM-DD" is the day index, a slot label "HH:00" is    *)
(* the hour HH, and a Date object is its timestamp in hours.               *)
(*                                                                         *)
(* React state is the variables view .. notification.  A handler reads the *)
(* state of the render it was created in: a click handler reads the        *)
(* current state (every state change re-renders), the buttons' disabled    *)
(* flags were computed with the clock of the last render (renderedAt), and *)
(* the setTimeout callbacks of handleConfirmPayment keep the bookings,     *)
(* pendingBooking and selectedDate of the render in which they were made   *)
(* (timers).                                                               *)
(***************************************************************************)
EXTENDS Integers, Sequences, FiniteSets, TLC

VARIABLES now, renderedAt, view, selectedDate, pendingBooking,
          showXenditModal, paymentStatus, bookings, notification,
          timers, nextId, lastOp, removed

vars == <<now, renderedAt, view, selectedDate, pendingBooking,
          showXenditModal, paymentStatus, bookings, notification,
          timers, nextId, lastOp, removed>>

\* ---- bounds of the exploration ----
MaxTicks == 1          \* hours the clock advances after the page was loaded
MaxSelections == 1     \* slot selections (each draws a new random id)
MaxTimers == 1         \* payment delays running at the same time
PairSelections == 2    \* slot selections of the two-payment scenario
PairTimers == 2        \* payment delays running at the same time in it

\* hours of day 0 at which the page is loaded
StartHours == {21}

\* the day buttons (today, tomorrow) and the slot buttons the user clicks
ClickedDays == {0, 1}
ClickedSlots == {21}

\* ---- configuration (page.tsx 7-12) ----
OPENING_HOUR == 10
CLOSING_HOUR == 22
TOTAL_SLOTS_PER_DAY == CLOSING_HOUR - OPENING_HOUR
MAX_CAPACITY_PER_SLOT == 1
TICKET_PRICE == 50000
MAX_SEATS_PER_SESSION == 40

HoursPerDay == 24
RescheduleNoticeHours == 12

\* generateTimeSlots: the labels `${i}:00` for i = OPENING_HOUR .. CLOSING_HOUR-1
generateTimeSlots == [i \in 1..(CLOSING_HOUR - OPENING_HOUR) |-> OPENING_HOUR + i - 1]

TIME_SLOTS == generateTimeSlots

Range(s) == {s[i] : i \in DOMAIN s}

\* null of selectedDate; null of pendingBooking and notification is <<>>
NullDate == -1

\* getLocalDateString(date): the local calendar day of a Date
getLocalDateString(date) == date \div HoursPerDay

\* new Date(`${dateStr}T${time}`).getTime()
DateTime(dateStr, time) == dateStr * HoursPerDay + time

\* new Date(year, month, day): local midnight of a calendar day
MidnightOf(day) == day * HoursPerDay

\* today.setHours(0,0,0,0)
StartOfDay(t) == (t \div HoursPerDay) * HoursPerDay

\* type Booking; createdAt, which nothing reads, is left out
Booking(id, date, time, status, amount) ==
    [id |-> id, date |-> date, time |-> time,
     status |-> status, price |-> TICKET_PRICE, amount |-> amount]

NoAmount == -1     \* the amount field is absent on a pending booking

\* ---- the booking lists the component can hold when it is mounted ----
\* useState<Booking[]>([...]): demo-1 tomorrow 10:00, demo-2 today 12:00
InitialBookings ==
    << Booking(1, 1, 10, "PAID", 50000),
       Booking(2, 0, 12, "PAID", 50000) >>

FirstNewId == 3

\* const demoBookings: a full session (40 seats), a nearly full one (39) and
\* one with 10 seats, all of today
demoBookings ==
    [i \in 1..40 |-> Booking(100 + i, 0, 10, "PAID", 50000)]
    \o [i \in 1..39 |-> Booking(200 + i, 0, 12, "PAID", 50000)]
    \o [i \in 1..10 |-> Booking(300 + i, 0, 14, "PAID", 50000)]

\* the list after the user has booked every remaining slot of today, one
\* booking per slot (demo-2 holds 12:00)
TodayBooked ==
    InitialBookings
    \o [i \in 1..2 |-> Booking(400 + i, 0, OPENING_HOUR + i - 1, "PAID", 50000)]
    \o [i \in 1..9 |-> Booking(410 + i, 0, OPENING_HOUR + 2 + i, "PAID", 50000)]

\* ---- helpers ----
isDateFull(bks, dateStr) ==
    LET daysBookings == SelectSeq(bks, LAMBDA b : b.date = dateStr)
    IN  Len(daysBookings) >= Len(TIME_SLOTS) * MAX_CAPACITY_PER_SLOT

getSessionBookings(bks, dateStr, time) ==
    SelectSeq(bks, LAMBDA b : b.date = dateStr /\ b.time = time)

\* isSlotFull with > for >=
isSlotFull_gt(bks, dateStr, time) ==
    Len(getSessionBookings(bks, dateStr, time)) > MAX_SEATS_PER_SESSION

isSlotFull(bks, dateStr, time) ==
    Len(getSessionBookings(bks, dateStr, time)) >= MAX_SEATS_PER_SESSION

hasUserBookedSession(bks, dateStr, time) ==
    Len(getSessionBookings(bks, dateStr, time)) > 0

\* isSlotTaken with <= for < in the test of the past
isSlotTaken_le(bks, dateStr, time, t) ==
    IF isSlotFull(bks, dateStr, time) THEN TRUE
    ELSE IF DateTime(dateStr, time) <= t THEN TRUE
    ELSE IF hasUserBookedSession(bks, dateStr, time) THEN TRUE
    ELSE FALSE

isSlotTaken(bks, dateStr, time, t) ==
    IF isSlotFull(bks, dateStr, time) THEN TRUE
    ELSE IF DateTime(dateStr, time) < t THEN TRUE
    ELSE IF hasUserBookedSession(bks, dateStr, time) THEN TRUE
    ELSE FALSE

\* checkRescheduleValidity with >= for > in the test of the notice
checkRescheduleValidity_ge(booking, t) ==
    LET bookingDateTime == DateTime(booking.date, booking.time)
    IN  IF bookingDateTime < t THEN FALSE
        ELSE (bookingDateTime - t) >= RescheduleNoticeHours

checkRescheduleValidity(booking, t) ==
    LET bookingDateTime == DateTime(booking.date, booking.time)
    IN  IF bookingDateTime < t THEN FALSE
        ELSE (bookingDateTime - t) > RescheduleNoticeHours

\* bookings.find(b => b.id === id): <<>> when there is none
FindBooking(bks, id) ==
    LET found == SelectSeq(bks, LAMBDA b : b.id = id)
    IN  IF Len(found) = 0 THEN <<>> ELSE <<found[1]>>

\* bookings.filter(b => b.id !== id)
RemoveBooking(bks, id) == SelectSeq(bks, LAMBDA b : b.id # id)

Notice(type, message) == << [type |-> type, message |-> message] >>

Op(op, id, ok) == [op |-> op, id |-> id, ok |-> ok]

\* lastOp after a step that is no handler of the booking flow
NoOp == Op("none", 0, TRUE)

\* ---- initial state ----
InitWith(bks) ==
    /\ now \in StartHours
    /\ renderedAt = now
    /\ view = "calendar"
    /\ selectedDate = NullDate
    /\ pendingBooking = <<>>
    /\ showXenditModal = FALSE
    /\ paymentStatus = "idle"
    /\ bookings = bks
    /\ notification = <<>>
    /\ timers = <<>>
    /\ nextId = FirstNewId
    /\ lastOp = NoOp
    /\ removed = {}

Init == InitWith(InitialBookings)

\* ---- the clock ----
Tick ==
    /\ \E s \in StartHours : s <= now /\ now < s + MaxTicks
    /\ now' = now + 1
    /\ lastOp' = NoOp
    /\ UNCHANGED <<renderedAt, view, selectedDate, pendingBooking,
                   showXenditModal, paymentStatus, bookings, notification,
                   timers, nextId, removed>>

\* ---- navigation: the setView buttons ----
\* header "Book" and "My Bookings", the back buttons of the slot list and of
\* the order summary, "+ New Booking" of the dashboard.  The page stays
\* operable while the payment modal is shown: the modal does not trap the
\* keyboard focus, which rests on the button that opened it.  A click that
\* sets the view it already has changes nothing and is left out.
SetView(v) ==
    /\ v # view
    /\ \/ v \in {"calendar", "dashboard"}
       \/ v = "slots" /\ view = "payment" /\ pendingBooking # <<>>
    /\ view' = v
    /\ renderedAt' = now
    /\ lastOp' = NoOp
    /\ UNCHANGED <<now, selectedDate, pendingBooking, showXenditModal,
                   paymentStatus, bookings, notification, timers, nextId,
                   removed>>

\* the day buttons of the calendar: disabled={isPast || isFull} as rendered
DayEnabled(day) ==
    /\ ~ (MidnightOf(day) < StartOfDay(renderedAt))
    /\ ~ isDateFull(bookings, getLocalDateString(MidnightOf(day)))

handleDayClick(day) ==
    /\ view = "calendar"
    /\ DayEnabled(day)
    /\ LET date == MidnightOf(day)
           today == StartOfDay(now)
       IN  IF date < today
           THEN /\ lastOp' = Op("handleDayClick", 0, FALSE)
                /\ UNCHANGED <<selectedDate, view, renderedAt>>
           ELSE /\ selectedDate' = date
                /\ view' = "slots"
                /\ renderedAt' = now
                /\ lastOp' = Op("handleDayClick", 0, TRUE)
    /\ UNCHANGED <<now, pendingBooking, showXenditModal, paymentStatus,
                   bookings, notification, timers, nextId, removed>>

\* the slot buttons: disabled={taken} as rendered; at most maxSelections
\* selections are made
SlotSelection(time, maxSelections) ==
    /\ view = "slots"
    /\ selectedDate # NullDate
    /\ ~ isSlotTaken(bookings, getLocalDateString(selectedDate), time, renderedAt)
    /\ nextId < FirstNewId + maxSelections
    /\ pendingBooking' = << Booking(nextId, getLocalDateString(selectedDate),
                                    time, "PENDING", NoAmount) >>
    /\ nextId' = nextId + 1
    /\ view' = "payment"
    /\ renderedAt' = now
    /\ lastOp' = Op("handleSlotSelection", nextId, TRUE)
    /\ UNCHANGED <<now, selectedDate, showXenditModal, paymentStatus,
                   bookings, notification, timers, removed>>

handleSlotSelection(time) == SlotSelection(time, MaxSelections)

handleInitiatePayment ==
    /\ view = "payment"
    /\ pendingBooking # <<>>
    /\ showXenditModal' = TRUE
    /\ paymentStatus' = "idle"
    /\ renderedAt' = IF showXenditModal /\ paymentStatus = "idle"
                     THEN renderedAt ELSE now
    /\ lastOp' = Op("handleInitiatePayment", 0, TRUE)
    /\ UNCHANGED <<now, view, selectedDate, pendingBooking, bookings,
                   notification, timers, nextId, removed>>

\* the close button of the payment modal, clearing the payment timeouts
CloseXenditModal_clearTimers ==
    /\ showXenditModal
    /\ showXenditModal' = FALSE
    /\ timers' = <<>>
    /\ renderedAt' = now
    /\ lastOp' = NoOp
    /\ UNCHANGED <<now, view, selectedDate, pendingBooking, paymentStatus,
                   bookings, notification, nextId, removed>>

\* the close button of the payment modal
CloseXenditModal ==
    /\ showXenditModal
    /\ showXenditModal' = FALSE
    /\ renderedAt' = now
    /\ lastOp' = NoOp
    /\ UNCHANGED <<now, view, selectedDate, pendingBooking, paymentStatus,
                   bookings, notification, timers, nextId, removed>>

\* the closure the two nested setTimeout callbacks run in: finalizeBooking
\* reads its bookings and pendingBooking, and its selectedDate only to test
\* it for null (and to word the toast), so the closure keeps that test
Timer(stage) ==
    [stage |-> stage, bookings |-> bookings,
     pendingBooking |-> pendingBooking,
     hasSelectedDate |-> selectedDate # NullDate]

\* the method buttons of the modal; at most maxTimers delays run at a time
ConfirmPayment(maxTimers) ==
    /\ showXenditModal
    /\ paymentStatus = "idle"
    /\ Len(timers) < maxTimers
    /\ paymentStatus' = "processing"
    /\ timers' = Append(timers, Timer("first"))
    /\ renderedAt' = now
    /\ lastOp' = Op("handleConfirmPayment", 0, TRUE)
    /\ UNCHANGED <<now, view, selectedDate, pendingBooking, showXenditModal,
                   bookings, notification, nextId, removed>>

handleConfirmPayment == ConfirmPayment(MaxTimers)

\* the 2000 ms timer: the oldest delay that is still in its first stage
FirstTimerFires ==
    \E i \in DOMAIN timers :
        /\ timers[i].stage = "first"
        /\ \A j \in 1..(i - 1) : timers[j].stage = "second"
        /\ paymentStatus' = "success"
        /\ timers' = [timers EXCEPT ![i].stage = "second"]
        /\ renderedAt' = IF paymentStatus = "success" THEN renderedAt ELSE now
        /\ lastOp' = Op("paymentSuccess", 0, TRUE)
        /\ UNCHANGED <<now, view, selectedDate, pendingBooking,
                       showXenditModal, bookings, notification, nextId,
                       removed>>

\* finalizeBooking without setPendingBooking(null) and setView('dashboard')
finalizeBooking_keepPending(c) ==
    IF c.pendingBooking = <<>> \/ ~ c.hasSelectedDate
    THEN /\ lastOp' = Op("finalizeBooking", 0, FALSE)
         /\ UNCHANGED <<bookings, notification, showXenditModal,
                        pendingBooking, view, renderedAt>>
    ELSE LET pending == c.pendingBooking[1]
             newBooking == [pending EXCEPT !.status = "PAID",
                                           !.amount = pending.price]
         IN  /\ bookings' = Append(c.bookings, newBooking)
             /\ notification' = Notice("success", "Payment successful!")
             /\ showXenditModal' = FALSE
             /\ renderedAt' = now
             /\ lastOp' = Op("finalizeBooking", pending.id, TRUE)
             /\ UNCHANGED <<pendingBooking, view>>

\* finalizeBooking without setView('dashboard')
finalizeBooking_noSetView(c) ==
    IF c.pendingBooking = <<>> \/ ~ c.hasSelectedDate
    THEN /\ lastOp' = Op("finalizeBooking", 0, FALSE)
         /\ UNCHANGED <<bookings, notification, showXenditModal,
                        pendingBooking, view, renderedAt>>
    ELSE LET pending == c.pendingBooking[1]
             newBooking == [pending EXCEPT !.status = "PAID",
                                           !.amount = pending.price]
         IN  /\ bookings' = Append(c.bookings, newBooking)
             /\ notification' = Notice("success", "Payment successful!")
             /\ showXenditModal' = FALSE
             /\ pendingBooking' = <<>>
             /\ renderedAt' = now
             /\ lastOp' = Op("finalizeBooking", pending.id, TRUE)
             /\ UNCHANGED view

\* finalizeBooking as it runs in the closure c
finalizeBooking(c) ==
    IF c.pendingBooking = <<>> \/ ~ c.hasSelectedDate
    THEN /\ lastOp' = Op("finalizeBooking", 0, FALSE)
         /\ UNCHANGED <<bookings, notification, showXenditModal,
                        pendingBooking, view, renderedAt>>
    ELSE LET pending == c.pendingBooking[1]
             newBooking == [pending EXCEPT !.status = "PAID",
                                           !.amount = pending.price]
         IN  /\ bookings' = Append(c.bookings, newBooking)
             /\ notification' = Notice("success", "Payment successful!")
             /\ showXenditModal' = FALSE
             /\ pendingBooking' = <<>>
             /\ view' = "dashboard"
             /\ renderedAt' = now
             /\ lastOp' = Op("finalizeBooking", pending.id, TRUE)

\* the 1500 ms timer set by handleConfirmPayment itself, not by the 2000 ms
\* timer: it fires whether or not paymentStatus was set to success
SecondTimerFires_anyStage ==
    /\ timers # <<>>
    /\ finalizeBooking(timers[1])
    /\ timers' = Tail(timers)
    /\ UNCHANGED <<now, selectedDate, paymentStatus, nextId, removed>>

\* the 1500 ms timer of the oldest delay
SecondTimerFires ==
    /\ timers # <<>>
    /\ timers[1].stage = "second"
    /\ finalizeBooking(timers[1])
    /\ timers' = Tail(timers)
    /\ UNCHANGED <<now, selectedDate, paymentStatus, nextId, removed>>

\* the Reschedule and Cancel buttons of a dashboard card: shown when the
\* booking was not past, enabled when it was valid, as rendered
CardButtonsEnabled(booking) ==
    /\ ~ (DateTime(booking.date, booking.time) < renderedAt)
    /\ checkRescheduleValidity(booking, renderedAt)

\* handleCancelBooking without the return of the declined branch
handleCancelBooking_noReturn(id) ==
    /\ LET booking == FindBooking(bookings, id)
       IN  /\ bookings' = RemoveBooking(bookings, id)
           /\ notification' = Notice("success", "Booking cancelled & refunded.")
           /\ IF booking = <<>> \/ ~ checkRescheduleValidity(booking[1], now)
              THEN /\ lastOp' = Op("handleCancelBooking", id, FALSE)
                   /\ UNCHANGED removed
              ELSE /\ lastOp' = Op("handleCancelBooking", id, TRUE)
                   /\ removed' = removed \cup {id}
    /\ renderedAt' = now
    /\ UNCHANGED <<now, view, selectedDate, pendingBooking, showXenditModal,
                   paymentStatus, timers, nextId>>

handleCancelBooking(id) ==
    /\ LET booking == FindBooking(bookings, id)
       IN  IF booking = <<>> \/ ~ checkRescheduleValidity(booking[1], now)
           THEN /\ notification' = Notice("error", "Cannot cancel less than 12 hours before.")
                /\ lastOp' = Op("handleCancelBooking", id, FALSE)
                /\ UNCHANGED <<bookings, removed>>
           ELSE /\ bookings' = RemoveBooking(bookings, id)
                /\ notification' = Notice("success", "Booking cancelled & refunded.")
                /\ lastOp' = Op("handleCancelBooking", id, TRUE)
                /\ removed' = removed \cup {id}
    /\ renderedAt' = now
    /\ UNCHANGED <<now, view, selectedDate, pendingBooking, showXenditModal,
                   paymentStatus, timers, nextId>>

\* handleRescheduleClick without setView('calendar')
handleRescheduleClick_noSetView(id) ==
    /\ LET booking == FindBooking(bookings, id)
       IN  IF booking = <<>> \/ ~ checkRescheduleValidity(booking[1], now)
           THEN /\ notification' = Notice("error", "Cannot reschedule less than 12 hours before.")
                /\ lastOp' = Op("handleRescheduleClick", id, FALSE)
                /\ UNCHANGED <<bookings, removed>>
           ELSE /\ bookings' = RemoveBooking(bookings, id)
                /\ notification' = Notice("info", "Credit retained. Select a new date.")
                /\ lastOp' = Op("handleRescheduleClick", id, TRUE)
                /\ removed' = removed \cup {id}
    /\ renderedAt' = now
    /\ UNCHANGED <<now, view, selectedDate, pendingBooking, showXenditModal,
                   paymentStatus, timers, nextId>>

handleRescheduleClick(id) ==
    /\ LET booking == FindBooking(bookings, id)
       IN  IF booking = <<>> \/ ~ checkRescheduleValidity(booking[1], now)
           THEN /\ notification' = Notice("error", "Cannot reschedule less than 12 hours before.")
                /\ lastOp' = Op("handleRescheduleClick", id, FALSE)
                /\ UNCHANGED <<bookings, view, removed>>
           ELSE /\ bookings' = RemoveBooking(bookings, id)
                /\ notification' = Notice("info", "Credit retained. Select a new date.")
                /\ view' = "calendar"
                /\ lastOp' = Op("handleRescheduleClick", id, TRUE)
                /\ removed' = removed \cup {id}
    /\ renderedAt' = now
    /\ UNCHANGED <<now, selectedDate, pendingBooking, showXenditModal,
                   paymentStatus, timers, nextId>>

\* a click on a card button of the dashboard
CancelClick ==
    /\ view = "dashboard"
    /\ \E b \in Range(bookings) :
          CardButtonsEnabled(b) /\ handleCancelBooking(b.id)

RescheduleClick ==
    /\ view = "dashboard"
    /\ \E b \in Range(bookings) :
          CardButtonsEnabled(b) /\ handleRescheduleClick(b.id)

\* the 3000 ms timer of the toast effect
DismissNotification ==
    /\ notification # <<>>
    /\ notification' = <<>>
    /\ renderedAt' = now
    /\ lastOp' = NoOp
    /\ UNCHANGED <<now, view, selectedDate, pendingBooking, showXenditModal,
                   paymentStatus, bookings, timers, nextId, removed>>

Next ==
    \/ Tick
    \/ \E v \in {"calendar", "slots", "dashboard"} : SetView(v)
    \/ \E day \in ClickedDays : handleDayClick(day)
    \/ \E time \in Range(TIME_SLOTS) \cap ClickedSlots : handleSlotSelection(time)
    \/ handleInitiatePayment
    \/ CloseXenditModal
    \/ handleConfirmPayment
    \/ FirstTimerFires
    \/ SecondTimerFires
    \/ CancelClick
    \/ RescheduleClick
    \/ DismissNotification

Spec == Init /\ [][Next]_vars

\* the component mounted with its own list or with the demo list
InitSeeded == InitWith(InitialBookings) \/ InitWith(demoBookings)

SpecSeeded == InitSeeded /\ [][Next]_vars

\* the component after a day of bookings
InitBooked == InitWith(TodayBooked)

SpecBooked == InitBooked /\ [][Next]_vars

\* a timeout that was set fires: no handler clears the two payment timeouts
SpecFair ==
    /\ Init /\ [][Next]_vars
    /\ WF_vars(FirstTimerFires)
    /\ WF_vars(SecondTimerFires)

\* two payments within one hour of the clock: a second slot can be selected
\* and confirmed while the delay of the first payment is still running
NextPair ==
    \/ \E v \in {"calendar", "slots", "dashboard"} : SetView(v)
    \/ \E day \in ClickedDays : handleDayClick(day)
    \/ \E time \in Range(TIME_SLOTS) \cap ClickedSlots :
          SlotSelection(time, PairSelections)
    \/ handleInitiatePayment
    \/ CloseXenditModal
    \/ ConfirmPayment(PairTimers)
    \/ FirstTimerFires
    \/ SecondTimerFires
    \/ CancelClick
    \/ RescheduleClick
    \/ DismissNotification

SpecPair == Init /\ [][NextPair]_vars

\* ---- properties ----
Ids(bks) == {bks[i].id : i \in DOMAIN bks}

SessionCount(bks, dateStr, time) ==
    Cardinality({i \in DOMAIN bks : bks[i].date = dateStr /\ bks[i].time = time})

StartOf(b) == b.date * HoursPerDay + b.time

Sessions(bks) == {<<bks[i].date, bks[i].time>> : i \in DOMAIN bks}

Days == ClickedDays

Slots == {TIME_SLOTS[i] : i \in DOMAIN TIME_SLOTS}

HeldBookings == Range(bookings) \cup Range(pendingBooking)

\* C1: for every booking and every clock reading, checkRescheduleValidity is
\* true exactly when the booking starts more than 12 hours after the clock
\* reading: it is false for a start in the past or at the reading, for a
\* notice of up to 12 hours, and at exactly 12 hours.
C1_ValidIffMoreThan12h ==
    \A b \in HeldBookings : \A t \in 0..now :
        checkRescheduleValidity(b, t) <=> (StartOf(b) - t > 12)

C1_Witness ==
    /\ lastOp.op \in {"handleCancelBooking", "handleRescheduleClick"}
    /\ \E b \in Range(bookings) :
          /\ b.id = lastOp.id
          /\ StartOf(b) - now = 12
          /\ ~ checkRescheduleValidity(b, now)
    /\ \E b \in Range(bookings) :
          StartOf(b) <= now /\ ~ checkRescheduleValidity(b, now)
    /\ \E b \in Range(bookings) : \E t \in 0..now :
          StartOf(b) - t > 12 /\ checkRescheduleValidity(b, t)

C3_DeclinedCancelKeepsList ==
    [][(/\ lastOp'.op = "handleCancelBooking"
        /\ \/ lastOp'.id \notin Ids(bookings)
           \/ \E b \in Range(bookings) :
                 b.id = lastOp'.id /\ ~ (StartOf(b) - now > 12))
       => /\ bookings' = bookings
          /\ notification' # <<>>
          /\ notification'[1].type = "error"
          /\ notification'[1].message = "Cannot cancel less than 12 hours before."]_vars

C3_Witness ==
    /\ lastOp.op = "handleCancelBooking"
    /\ ~ lastOp.ok
    /\ lastOp.id \in Ids(bookings)
    /\ notification # <<>>
    /\ notification[1].type = "error"

\* C4: every run of finalizeBooking on a pending booking appends one PAID
\* booking with amount = price, and the list right after it is exactly one
\* longer than the list right before it.
C4_FinalizeAppendsOne ==
    [][(lastOp'.op = "finalizeBooking" /\ lastOp'.ok)
       => /\ Len(bookings') = Len(bookings) + 1
          /\ bookings'[Len(bookings')].status = "PAID"
          /\ bookings'[Len(bookings')].amount = bookings'[Len(bookings')].price]_vars

\* C5: handleCancelBooking and handleRescheduleClick remove the booking with
\* the given id exactly when it is eligible at the time of the call; every
\* other booking is kept as it was, and a reschedule that removes the booking
\* switches the view to the calendar.
C5_RemoveIffValid ==
    [][(lastOp'.op \in {"handleCancelBooking", "handleRescheduleClick"})
       => LET id == lastOp'.id
              valid == \E b \in Range(bookings) : b.id = id /\ StartOf(b) - now > 12
              others == {i \in DOMAIN bookings : bookings[i].id # id}
          IN  /\ valid <=> (id \in Ids(bookings) /\ id \notin Ids(bookings'))
              /\ valid =>
                    /\ Len(bookings') = Cardinality(others)
                    /\ \A i \in others :
                          bookings'[Cardinality({j \in others : j <= i})] = bookings[i]
                    /\ lastOp'.op = "handleRescheduleClick" => view' = "calendar"
              /\ ~ valid => (bookings' = bookings /\ view' = view)]_vars

C5_Witness ==
    /\ lastOp.op = "handleRescheduleClick"
    /\ lastOp.ok
    /\ lastOp.id \notin Ids(bookings)
    /\ bookings # <<>>
    /\ view = "calendar"

\* C6: a booking removed by a successful handleCancelBooking or
\* handleRescheduleClick is never in the booking list again.
C6_RemovedStaysRemoved ==
    \A id \in removed : id \notin Ids(bookings)

\* C7: no booking is added to the list for a slot whose start time is before
\* the current time when the booking is finalized.
C7_NoPastSlotBooked ==
    [][(lastOp'.op = "finalizeBooking" /\ lastOp'.ok)
       => ~ (StartOf(bookings'[Len(bookings')]) < now)]_vars

\* C8: isSlotTaken is true exactly when the session is full (40 or more
\* bookings), or the slot starts strictly before the clock reading, or the
\* session holds at least one booking; a slot that starts exactly at the
\* clock reading and has no booking is not taken.
C8_SlotTakenIff ==
    \A d \in Days : \A time \in Slots :
        LET seats == SessionCount(bookings, d, time)
        IN  \A t \in {now, renderedAt} :
                isSlotTaken(bookings, d, time, t)
                  <=> \/ seats >= 40
                      \/ d * HoursPerDay + time < t
                      \/ seats >= 1

C8_Witness ==
    /\ view = "slots"
    /\ \E d \in Days : \E time \in Slots :
          /\ d * HoursPerDay + time = now
          /\ SessionCount(bookings, d, time) = 0
          /\ ~ isSlotTaken(bookings, d, time, now)
    /\ \E d \in Days : \E time \in Slots :
          /\ SessionCount(bookings, d, time) >= 40
          /\ isSlotTaken(bookings, d, time, now)
    /\ \E d \in Days : \E time \in Slots :
          /\ SessionCount(bookings, d, time) = 1
          /\ ~ (d * HoursPerDay + time < now)
          /\ isSlotTaken(bookings, d, time, now)

\* C9: isDateFull(date) is true exactly when isSlotFull(date, t) is true for
\* every slot t of the daily schedule.
C9_DateFullIffAllSlotsFull ==
    \A d \in Days :
        isDateFull(bookings, d)
          <=> \A time \in Slots : isSlotFull(bookings, d, time)

\* C10: paymentStatus only changes from idle to processing, by
\* handleConfirmPayment, and from processing to success, by the first timer,
\* and finalizeBooking runs only while paymentStatus is success.
C10_PaymentTransitions ==
    [][/\ paymentStatus' # paymentStatus
          => \/ /\ paymentStatus = "idle" /\ paymentStatus' = "processing"
                /\ lastOp'.op = "handleConfirmPayment"
             \/ /\ paymentStatus = "processing" /\ paymentStatus' = "success"
                /\ lastOp'.op = "paymentSuccess"
       /\ lastOp'.op = "finalizeBooking" => paymentStatus = "success"]_vars

\* the ids handleSlotSelection draws
NewIds == FirstNewId..(FirstNewId + MaxSelections - 1)

ConfirmedFor(id) ==
    \E i \in DOMAIN timers :
        /\ timers[i].pendingBooking # <<>>
        /\ timers[i].pendingBooking[1].id = id

PaidInList(id) ==
    \E b \in Range(bookings) : b.id = id /\ b.status = "PAID"

PaidInSession(bks, dateStr, time) ==
    {i \in DOMAIN bks : /\ bks[i].date = dateStr
                         /\ bks[i].time = time
                         /\ bks[i].status = "PAID"}

PaidOf(c) ==
    {[c.pendingBooking[i] EXCEPT !.status = "PAID",
                                 !.amount = c.pendingBooking[i].price]
        : i \in DOMAIN c.pendingBooking}

\* C13: every booking of the list is PAID and a PENDING booking is held only
\* in pendingBooking; a step that puts a booking into the list is the
\* finalization of a payment whose 2000 ms timer has set paymentStatus to
\* success, and the booking is that payment's pending booking made PAID (or
\* a booking of the list that finalization had captured).
C13_PaidOnlyAfterSuccess ==
    [][/\ \A b \in Range(bookings') : b.status = "PAID"
       /\ \A p \in Range(pendingBooking') : p.status = "PENDING"
       /\ \A b \in Range(bookings') \ Range(bookings) :
             /\ lastOp'.op = "finalizeBooking"
             /\ lastOp'.ok
             /\ timers # <<>>
             /\ timers[1].stage = "second"
             /\ b \in PaidOf(timers[1]) \cup Range(timers[1].bookings)
             /\ b.id \notin Ids(timers[1].bookings) => b.id = lastOp'.id]_vars

C13_Witness ==
    /\ lastOp.op = "finalizeBooking"
    /\ lastOp.ok
    /\ paymentStatus = "success"
    /\ pendingBooking = <<>>
    /\ \E b \in Range(bookings) :
          b.id = lastOp.id /\ b.status = "PAID" /\ b.amount = TICKET_PRICE
    /\ \A b \in Range(bookings) : b.status = "PAID"

\* C14: a booking that a finalization has appended leaves the list only by a
\* successful handleCancelBooking or handleRescheduleClick on its own id;
\* the finalization of a second payment does not drop it.
C14_PaidBookingKept ==
    [][\A id \in Ids(bookings) \ Ids(bookings') :
          id >= FirstNewId
            => /\ lastOp'.op \in {"handleCancelBooking", "handleRescheduleClick"}
               /\ lastOp'.id = id
               /\ lastOp'.ok]_vars

\* C15: the view is consistent with the data it renders: the slot list has a
\* selected date, the order summary has a pending booking and a selected
\* date, and the payment modal is shown only with a pending booking; also
\* right after a delayed finalization that fired while another slot had
\* been selected or another view was shown.
C15_ViewConsistent ==
    /\ view = "slots" => selectedDate # NullDate
    /\ view = "payment" => (pendingBooking # <<>> /\ selectedDate # NullDate)
    /\ showXenditModal => pendingBooking # <<>>

\* a finalization of the first payment that fired after a second slot had
\* been selected, with the delay of the second payment still running
C15_Witness ==
    /\ lastOp.op = "finalizeBooking"
    /\ lastOp.ok
    /\ lastOp.id + 1 < nextId
    /\ timers # <<>>
    /\ view = "dashboard"
    /\ pendingBooking = <<>>
    /\ ~ showXenditModal

====
